---- MODULE Spec2Model ----
(***************************************************************************)
(* A model of server.js, the tour.ia backend: the history file and its     *)
(* read-modify-write handlers (POST /api/plan, POST /api/chat,             *)
(* GET /api/history, DELETE /api/history/:id), the two day caches          *)
(* (GET /api/trending, GET /api/banner) and the pure computations the      *)
(* handlers make (JSON.parse and the regex fallback, parseInt and the      *)
(* clamps, the trending count).                                            *)
(*                                                                         *)
(* Text is modelled as a sequence of one-character strings; the model's    *)
(* answer is a sequence of JSON tokens.  A handler runs to its next await  *)
(* in one step: fs.readFileSync and fs.writeFileSync do not yield, the     *)
(* only suspension point of a handler is its await of the model call.      *)
(***************************************************************************)
EXTENDS Integers, Sequences, FiniteSets, TLC

VARIABLES
  file,           \* data/history.json: the persisted sequence of entries
  trendingCache,  \* let trendingCache = { date, list }
  bannerCache,    \* let bannerCache = { date, text }
  now,            \* the process clock, Date.now()
  pending,        \* requests suspended at their await of the model call
  calls,          \* number of model invocations made so far
  last,           \* the step just taken: handler, inputs, response
  appended,       \* entries pushed by plan/chat requests that answered 200
  removed,        \* entries spliced by delete requests that answered 200
  faulted         \* whether a storage read or write has failed so far

vars == <<file, trendingCache, bannerCache, now, pending, calls, last,
          appended, removed, faulted>>

(***************************************************************************)
(* Bounds of the model.                                                    *)
(***************************************************************************)
MaxCalls == 2
MaxNow == 2
DayLen == 2
MaxTextLen == 5
MaxQueryLen == 2
MaxTrendHistory == 12

(***************************************************************************)
(* JavaScript values.                                                      *)
(***************************************************************************)
Undefined == <<"undefined">>

\* a JavaScript number: an integer value or NaN
JsInt(v) == [nan |-> FALSE, v |-> v]
JsNaN == [nan |-> TRUE, v |-> 0]

\* JSON values as JSON.parse builds them
JNull == [t |-> "null"]
JNum == [t |-> "num"]
JStr(s) == [t |-> "str", s |-> s]
JArr(items) == [t |-> "arr", items |-> items]
JObj(m) == [t |-> "obj", m |-> m]
EmptyMap == [k \in {} |-> JNull]
Put(m, k, v) == [x \in DOMAIN m \cup {k} |-> IF x = k THEN v ELSE m[x]]

(***************************************************************************)
(* String functions, character by character.                               *)
(***************************************************************************)
LowerChar(c) ==
  CASE c = "P" -> "p"
    [] c = "A" -> "a"
    [] c = "R" -> "r"
    [] c = "I" -> "i"
    [] c = "S" -> "s"
    [] c = "F" -> "f"
    [] OTHER -> c
ToLowerCase(s) == [i \in 1..Len(s) |-> LowerChar(s[i])]

RECURSIVE TrimStart(_)
TrimStart(s) ==
  IF s # <<>> /\ Head(s) = " " THEN TrimStart(Tail(s)) ELSE s
RECURSIVE TrimEnd(_)
TrimEnd(s) ==
  IF s # <<>> /\ s[Len(s)] = " " THEN TrimEnd(SubSeq(s, 1, Len(s) - 1)) ELSE s
Trim(s) == TrimEnd(TrimStart(s))

\* s.split(",")[0]
RECURSIVE SplitFirst(_)
SplitFirst(s) ==
  IF s = <<>> \/ Head(s) = "," THEN <<>> ELSE <<Head(s)>> \o SplitFirst(Tail(s))

\* xss(s) of the xss package, on text with no whitelisted tag: < and > are escaped
XssChar(c) ==
  CASE c = "<" -> <<"&", "l", "t", ";">>
    [] c = ">" -> <<"&", "g", "t", ";">>
    [] OTHER -> <<c>>
RECURSIVE xss(_)
xss(s) == IF s = <<>> THEN <<>> ELSE XssChar(Head(s)) \o xss(Tail(s))

EncodeChar(c) ==
  CASE c = " " -> <<"%", "2", "0">>
    [] c = "," -> <<"%", "2", "C">>
    [] c = "<" -> <<"%", "3", "C">>
    [] c = ">" -> <<"%", "3", "E">>
    [] c = "&" -> <<"%", "2", "6">>
    [] c = ";" -> <<"%", "3", "B">>
    [] OTHER -> <<c>>
RECURSIVE encodeURIComponent(_)
encodeURIComponent(s) ==
  IF s = <<>> THEN <<>> ELSE EncodeChar(Head(s)) \o encodeURIComponent(Tail(s))

UpperChar(c) ==
  CASE c = "p" -> "P"
    [] c = "a" -> "A"
    [] c = "r" -> "R"
    [] c = "i" -> "I"
    [] c = "s" -> "S"
    [] c = "f" -> "F"
    [] c = "c" -> "C"
    [] c = "b" -> "B"
    [] OTHER -> c
\* k.charAt(0).toUpperCase() + k.slice(1)
Capitalize(k) == IF k = <<>> THEN <<>> ELSE <<UpperChar(Head(k))>> \o Tail(k)

(***************************************************************************)
(* JSON.parse on token sequences.  Tokens: { } [ ] , the literals n (null) *)
(* 1 (a number) sP sQ (the strings "P" "Q"), the keys kI kM kS             *)
(* ("itinerary": "images": "summary":), w (white space) and c (a word of   *)
(* prose, which is no JSON).                                               *)
(***************************************************************************)
KeyOf(tok) ==
  CASE tok = "kI" -> "itinerary"
    [] tok = "kM" -> "images"
    [] tok = "kS" -> "summary"
KeyToks == {"kI", "kM", "kS"}
StrOf(tok) ==
  CASE tok = "sP" -> <<"P">>
    [] tok = "sQ" -> <<"Q">>
StrToks == {"sP", "sQ"}

PFail == [ok |-> FALSE, v |-> JNull, i |-> 0]
POk(v, i) == [ok |-> TRUE, v |-> v, i |-> i]

RECURSIVE SkipWs(_, _)
SkipWs(t, i) == IF i <= Len(t) /\ t[i] = "w" THEN SkipWs(t, i + 1) ELSE i

RECURSIVE ParseValue(_, _)
RECURSIVE ParseElems(_, _, _)
RECURSIVE ParseMembers(_, _, _)
ParseValue(t, i0) ==
  LET i == SkipWs(t, i0) IN
  IF i > Len(t) THEN PFail
  ELSE IF t[i] = "n" THEN POk(JNull, i + 1)
  ELSE IF t[i] = "1" THEN POk(JNum, i + 1)
  ELSE IF t[i] \in StrToks THEN POk(JStr(StrOf(t[i])), i + 1)
  ELSE IF t[i] = "[" THEN
    LET j == SkipWs(t, i + 1) IN
    IF j <= Len(t) /\ t[j] = "]" THEN POk(JArr(<<>>), j + 1)
    ELSE ParseElems(t, j, <<>>)
  ELSE IF t[i] = "{" THEN
    LET j == SkipWs(t, i + 1) IN
    IF j <= Len(t) /\ t[j] = "}" THEN POk(JObj(EmptyMap), j + 1)
    ELSE ParseMembers(t, j, EmptyMap)
  ELSE PFail
ParseElems(t, i, acc) ==
  LET r == ParseValue(t, i) IN
  IF ~r.ok THEN PFail
  ELSE LET j == SkipWs(t, r.i) IN
    IF j > Len(t) THEN PFail
    ELSE IF t[j] = "]" THEN POk(JArr(Append(acc, r.v)), j + 1)
    ELSE IF t[j] = "," THEN ParseElems(t, j + 1, Append(acc, r.v))
    ELSE PFail
ParseMembers(t, i0, m) ==
  LET i == SkipWs(t, i0) IN
  IF i > Len(t) \/ t[i] \notin KeyToks THEN PFail
  ELSE LET r == ParseValue(t, i + 1) IN
    IF ~r.ok THEN PFail
    ELSE LET j == SkipWs(t, r.i) IN
      IF j > Len(t) THEN PFail
      ELSE IF t[j] = "}" THEN POk(JObj(Put(m, KeyOf(t[i]), r.v)), j + 1)
      ELSE IF t[j] = "," THEN ParseMembers(t, j + 1, Put(m, KeyOf(t[i]), r.v))
      ELSE PFail

\* JSON.parse(t): ok = FALSE stands for the SyntaxError it throws
JSONparse(t) ==
  LET r == ParseValue(t, 1) IN
  IF r.ok /\ SkipWs(t, r.i) = Len(t) + 1 THEN [ok |-> TRUE, v |-> r.v]
  ELSE [ok |-> FALSE, v |-> JNull]

\* text.match(/\{[\s\S]*\}$/): the leftmost { up to the end of a text ending in }
RegexMatch(t) ==
  LET opens == {i \in 1..Len(t) : t[i] = "{"} IN
  IF opens = {} \/ t[Len(t)] # "}" THEN [m |-> FALSE, s |-> <<>>]
  ELSE LET first == CHOOSE i \in opens : \A j \in opens : i <= j IN
    IF first = Len(t) THEN [m |-> FALSE, s |-> <<>>]
    ELSE [m |-> TRUE, s |-> SubSeq(t, first, Len(t))]

\* the plan handler's parse: JSON.parse(text), else JSON.parse of the match
PlanParse(text) ==
  LET direct == JSONparse(text) IN
  IF direct.ok THEN direct
  ELSE LET m == RegexMatch(text) IN
    IF m.m THEN JSONparse(m.s) ELSE [ok |-> FALSE, v |-> JNull]

\* the chat handler's parse: try { JSON.parse(text) } catch { null }
ChatParse(text) ==
  LET direct == JSONparse(text) IN
  IF direct.ok THEN direct.v ELSE JNull

(***************************************************************************)
(* Requests.  An origin is the request's x-forwarded-for header and its    *)
(* socket address; a body is a function from its keys to their values.     *)
(***************************************************************************)
NonString == <<"number">>
IsString(v) == v # Undefined /\ v # NonString
Get(obj, k) == IF k \in DOMAIN obj THEN obj[k] ELSE Undefined

\* forwarded.split(",")[0].trim(), else req.socket.remoteAddress
getClientIp(req) ==
  IF req.fwd # Undefined /\ req.fwd # <<>> THEN Trim(SplitFirst(req.fwd))
  ELSE req.remote

\* sha256 is modelled as injective: the digest is named by what was hashed
hashIp(ip) ==
  [sha256 |-> IF ip = Undefined \/ ip = <<>>
              THEN <<"u", "n", "k", "n", "o", "w", "n">> ELSE ip]

\* d.setHours(0,0,0,0); d.toISOString(): the day the clock is in
startOfDayString == now \div DayLen

(***************************************************************************)
(* The history file.  rf and wf say whether this read or write fails.      *)
(***************************************************************************)
readHistory(rf) == IF rf THEN <<>> ELSE file
\* the content of the file after writeHistory(arr)
writeHistory(arr, wf) == IF wf THEN file ELSE arr
push(history, entry) == Append(history, entry)
\* history.findIndex(it => it.id === id), 0 for -1
findIndex(history, id) ==
  LET hits == {i \in 1..Len(history) : history[i].id = id} IN
  IF hits = {} THEN 0 ELSE CHOOSE i \in hits : \A j \in hits : i <= j
\* history.splice(idx): everything from idx on goes
spliceRest(history, idx) == SubSeq(history, 1, idx - 1)
\* history.splice(idx, 1)
splice(history, idx) ==
  SubSeq(history, 1, idx - 1) \o SubSeq(history, idx + 1, Len(history))
\* Date.now().toString(36) + "-" + Math.random().toString(36).slice(2,8)
NewId(rand) == <<now, rand>>

(***************************************************************************)
(* POST /api/plan                                                          *)
(***************************************************************************)
\* a sixth key let through
allowedAndExtra == {"destination", "days", "budget", "interests", "group", "extra"}
allowed == {"destination", "days", "budget", "interests", "group"}

\* for (const k of bodyKeys) if (typeof ... === "string") ... = xss(....trim())
SanitizeBody(body) ==
  [k \in DOMAIN body |-> IF IsString(body[k]) THEN xss(Trim(body[k])) ELSE body[k]]

\* { destination, days, budget, interests, group } as JSON.stringify keeps it
PlanRequest(sbody) ==
  [k \in {x \in allowed : Get(sbody, x) # Undefined} |-> sbody[k]]

Truthy(v) ==
  CASE v.t = "null" -> FALSE
    [] v.t = "str" -> v.s # <<>>
    [] OTHER -> TRUE

UnsplashPrefix == <<"https://source.unsplash.com/800x500/?">>
DefaultImages(destination) ==
  JArr(<<JStr(UnsplashPrefix \o encodeURIComponent(destination))>>)

\* !parsed.images || !Array.isArray(parsed.images) || parsed.images.length === 0
LacksImages(m) ==
  \/ "images" \notin DOMAIN m
  \/ ~Truthy(m["images"])
  \/ m["images"].t # "arr"
  \/ m["images"].items = <<>>

\* The images step on the parsed value.  null: reading .images throws; a
\* number or a string: the assignment throws in strict mode (an ES module);
\* an array: the assignment adds a property that is no element.
AddImages(parsed, destination) ==
  CASE parsed.t \in {"null", "num", "str"} -> [threw |-> TRUE, v |-> parsed]
    [] parsed.t = "arr" ->
         [threw |-> FALSE,
          v |-> [t |-> "arr", items |-> parsed.items,
                 images |-> DefaultImages(destination)]]
    [] parsed.t = "obj" ->
         [threw |-> FALSE,
          v |-> IF LacksImages(parsed.m)
                THEN JObj(Put(parsed.m, "images", DefaultImages(destination)))
                ELSE parsed]

\* JSON.stringify then JSON.parse: what the client and the file receive
Serialize(v) == IF v.t = "arr" THEN JArr(v.items) ELSE v

NoResponse == 0

PlanStart(origin, body) ==
  LET sbody == SanitizeBody(body)
      destination == Get(sbody, "destination")
  IN
  IF ~(DOMAIN body \subseteq allowed) THEN
    /\ last' = [op |-> "planStart", origin |-> origin, body |-> body,
                status |-> 400, error |-> "Invalid fields"]
    /\ UNCHANGED <<file, trendingCache, bannerCache, now, pending, calls,
                   appended, removed, faulted>>
  ELSE IF destination = Undefined \/ destination = <<>> THEN
    /\ last' = [op |-> "planStart", origin |-> origin, body |-> body,
                status |-> 400, error |-> "Destination required"]
    /\ UNCHANGED <<file, trendingCache, bannerCache, now, pending, calls,
                   appended, removed, faulted>>
  ELSE
    /\ calls < MaxCalls
    /\ calls' = calls + 1
    /\ pending' = pending \cup
         {[rid |-> calls + 1, kind |-> "plan", origin |-> origin,
           request |-> PlanRequest(sbody)]}
    /\ last' = [op |-> "planStart", origin |-> origin, body |-> body,
                status |-> NoResponse, error |-> ""]
    /\ UNCHANGED <<file, trendingCache, bannerCache, now, appended, removed,
                   faulted>>

\* the hash of the socket address, whatever x-forwarded-for says
PlanEntryRemote(r, rand, parsed) ==
  [id |-> NewId(rand), userHash |-> hashIp(r.origin.remote),
   timestamp |-> now, request |-> r.request, response |-> Serialize(parsed)]
PlanEntry(r, rand, parsed) ==
  [id |-> NewId(rand), userHash |-> hashIp(getClientIp(r.origin)),
   timestamp |-> now, request |-> r.request, response |-> Serialize(parsed)]

\* outcome: the model call throws, returns no text, or returns a text
PlanResume(r, outcome, rand, rf, wf) ==
  /\ r \in pending
  /\ r.kind = "plan"
  /\ pending' = pending \ {r}
  /\ UNCHANGED <<trendingCache, bannerCache, now, calls, removed>>
  /\ LET ev == [op |-> "planResume", rid |-> r.rid, origin |-> r.origin,
                request |-> r.request, outcome |-> outcome]
         p == PlanParse(outcome.text)
         a == AddImages(p.v, r.request["destination"])
         entry == PlanEntry(r, rand, a.v)
     IN
     IF outcome.kind = "throw" THEN
       /\ last' = ev @@ [status |-> 500, error |-> "Internal server error"]
       /\ UNCHANGED <<file, appended, faulted>>
     ELSE IF outcome.kind = "empty" THEN
       /\ last' = ev @@ [status |-> 502, error |-> "No response from model"]
       /\ UNCHANGED <<file, appended, faulted>>
     ELSE IF ~p.ok THEN
       /\ last' = ev @@ [status |-> 500, error |-> "Model output not valid JSON",
                         raw |-> outcome.text]
       /\ UNCHANGED <<file, appended, faulted>>
     ELSE IF a.threw THEN
       /\ last' = ev @@ [status |-> 500, error |-> "Internal server error",
                         parsed |-> p.v]
       /\ UNCHANGED <<file, appended, faulted>>
     ELSE
       /\ file' = writeHistory(push(readHistory(rf), entry), wf)
       /\ appended' = Append(appended, entry)
       /\ faulted' = (faulted \/ rf \/ wf)
       /\ last' = ev @@ [status |-> 200, error |-> "", parsed |-> p.v,
                         body |-> Serialize(a.v), entry |-> entry,
                         rf |-> rf, wf |-> wf]

(***************************************************************************)
(* POST /api/chat.  messages is an array of elements or something else; an *)
(* element is an object with role and content, null, or a primitive.       *)
(***************************************************************************)
NotArray == [arr |-> FALSE, items |-> <<>>]
ArrayOf(items) == [arr |-> TRUE, items |-> items]
Msg(role, content) == [k |-> "obj", role |-> role, content |-> content]
NullElem == [k |-> "null", role |-> Undefined, content |-> Undefined]
PrimElem == [k |-> "prim", role |-> Undefined, content |-> Undefined]

\* m => ({ role: m.role, content: typeof m.content === "string" ? xss(m.content) : "" })
SanitizeMsg(m) ==
  [role |-> m.role, content |-> IF IsString(m.content) THEN xss(m.content) ELSE <<>>]

\* sanitized.slice(-1)[0]?.content || ""
Snippet(sanitized) ==
  IF sanitized = <<>> THEN <<>> ELSE sanitized[Len(sanitized)].content

\* { chat: true, group, snippet } as JSON.stringify keeps it
ChatRequest(group, sanitized) ==
  IF group = Undefined
  THEN [chat |-> TRUE, snippet |-> Snippet(sanitized)]
  ELSE [chat |-> TRUE, group |-> group, snippet |-> Snippet(sanitized)]

\* every parsed value is saved
SavesAll(parsed) == TRUE
\* parsed && parsed.itinerary
HasItinerary(parsed) ==
  /\ parsed.t = "obj"
  /\ "itinerary" \in DOMAIN parsed.m
  /\ Truthy(parsed.m["itinerary"])

ChatStart(origin, body) ==
  LET messages == body.messages IN
  IF ~messages.arr THEN
    /\ last' = [op |-> "chatStart", origin |-> origin, body |-> body,
                status |-> 400, error |-> "messages array required"]
    /\ UNCHANGED <<file, trendingCache, bannerCache, now, pending, calls,
                   appended, removed, faulted>>
  ELSE IF \E i \in 1..Len(messages.items) : messages.items[i].k = "null" THEN
    \* m.role on null throws a TypeError, which the handler's catch answers
    /\ last' = [op |-> "chatStart", origin |-> origin, body |-> body,
                status |-> 500, error |-> "Internal server error"]
    /\ UNCHANGED <<file, trendingCache, bannerCache, now, pending, calls,
                   appended, removed, faulted>>
  ELSE
    /\ calls < MaxCalls
    /\ calls' = calls + 1
    /\ pending' = pending \cup
         {[rid |-> calls + 1, kind |-> "chat", origin |-> origin,
           group |-> body.group,
           sanitized |-> [i \in 1..Len(messages.items) |->
                            SanitizeMsg(messages.items[i])]]}
    /\ last' = [op |-> "chatStart", origin |-> origin, body |-> body,
                status |-> NoResponse, error |-> ""]
    /\ UNCHANGED <<file, trendingCache, bannerCache, now, appended, removed,
                   faulted>>

ChatEntry(r, rand, parsed) ==
  [id |-> NewId(rand), userHash |-> hashIp(getClientIp(r.origin)),
   timestamp |-> now, request |-> ChatRequest(r.group, r.sanitized),
   response |-> parsed]

ChatResume(r, outcome, rand, rf, wf) ==
  /\ r \in pending
  /\ r.kind = "chat"
  /\ pending' = pending \ {r}
  /\ UNCHANGED <<trendingCache, bannerCache, now, calls, removed>>
  /\ LET ev == [op |-> "chatResume", rid |-> r.rid, origin |-> r.origin,
                group |-> r.group, sanitized |-> r.sanitized, outcome |-> outcome]
         parsed == ChatParse(outcome.text)
         entry == ChatEntry(r, rand, parsed)
     IN
     IF outcome.kind = "throw" THEN
       /\ last' = ev @@ [status |-> 500, error |-> "Internal server error"]
       /\ UNCHANGED <<file, appended, faulted>>
     ELSE IF outcome.kind = "empty" THEN
       /\ last' = ev @@ [status |-> 502, error |-> "No response from model"]
       /\ UNCHANGED <<file, appended, faulted>>
     ELSE IF HasItinerary(parsed) THEN
       /\ file' = writeHistory(push(readHistory(rf), entry), wf)
       /\ appended' = Append(appended, entry)
       /\ faulted' = (faulted \/ rf \/ wf)
       /\ last' = ev @@ [status |-> 200, error |-> "", text |-> outcome.text,
                         parsed |-> parsed, saved |-> TRUE, entry |-> entry,
                         rf |-> rf, wf |-> wf]
     ELSE
       /\ last' = ev @@ [status |-> 200, error |-> "", text |-> outcome.text,
                         parsed |-> parsed, saved |-> FALSE]
       /\ UNCHANGED <<file, appended, faulted>>

(***************************************************************************)
(* GET /api/history?page=&limit=                                           *)
(***************************************************************************)
MaxLimit == 50
DefaultPage == <<"1">>
DefaultLimit == <<"1", "0">>
Digits == {"0", "1", "2", "3", "4", "5", "6", "7", "8", "9"}
DigitVal(c) ==
  CASE c = "0" -> 0 [] c = "1" -> 1 [] c = "2" -> 2 [] c = "3" -> 3
    [] c = "4" -> 4 [] c = "5" -> 5 [] c = "6" -> 6 [] c = "7" -> 7
    [] c = "8" -> 8 [] c = "9" -> 9

\* the value of the longest prefix of digits of s, after acc
RECURSIVE DigitPrefix(_, _)
DigitPrefix(s, acc) ==
  IF s = <<>> \/ Head(s) \notin Digits THEN acc
  ELSE DigitPrefix(Tail(s), 10 * acc + DigitVal(Head(s)))

\* parseInt(s): white space, a sign, then decimal digits; NaN with no digit
parseInt(s) ==
  LET t == TrimStart(s)
      neg == t # <<>> /\ Head(t) = "-"
      u == IF t # <<>> /\ Head(t) \in {"-", "+"} THEN Tail(t) ELSE t
  IN
  IF u = <<>> \/ Head(u) \notin Digits THEN JsNaN
  ELSE JsInt(IF neg THEN 0 - DigitPrefix(u, 0) ELSE DigitPrefix(u, 0))

\* Math.max and Math.min answer NaN when an argument is NaN
MathMax(a, b) ==
  IF a.nan \/ b.nan THEN JsNaN ELSE IF a.v >= b.v THEN a ELSE b
MathMin(a, b) ==
  IF a.nan \/ b.nan THEN JsNaN ELSE IF a.v <= b.v THEN a ELSE b
\* Math.ceil(a / b) for a >= 0; b is NaN or at least 1 here
CeilDiv(a, b) ==
  IF a.nan \/ b.nan THEN JsNaN ELSE JsInt((a.v + b.v - 1) \div b.v)

\* req.query.x || dflt
OrDefault(raw, dflt) == IF raw = Undefined \/ raw = <<>> THEN dflt ELSE raw
PageOf(pageRaw) == MathMax(JsInt(1), parseInt(OrDefault(pageRaw, DefaultPage)))
LimitOf(limitRaw) ==
  MathMax(JsInt(1), MathMin(JsInt(MaxLimit), parseInt(OrDefault(limitRaw, DefaultLimit))))

\* .filter(it => it.userHash === h)
RECURSIVE FilterHash(_, _)
FilterHash(history, h) ==
  IF history = <<>> THEN <<>>
  ELSE (IF Head(history).userHash = h THEN <<Head(history)>> ELSE <<>>)
       \o FilterHash(Tail(history), h)

\* .sort((a,b) => new Date(b.timestamp) - new Date(a.timestamp)): a stable
\* sort, so an entry goes after the entries that are not older than it
InsertByTime(sorted, e) ==
  LET k == Cardinality({i \in 1..Len(sorted) : sorted[i].timestamp >= e.timestamp})
  IN SubSeq(sorted, 1, k) \o <<e>> \o SubSeq(sorted, k + 1, Len(sorted))
RECURSIVE SortByTimeDesc(_)
SortByTimeDesc(history) ==
  IF history = <<>> THEN <<>>
  ELSE InsertByTime(SortByTimeDesc(SubSeq(history, 1, Len(history) - 1)),
                    history[Len(history)])

\* history.slice(start, start + limit - 1)
SliceShort(history, start, end) ==
  LET lo == IF start.nan THEN 0 ELSE start.v
      hi == IF end.nan THEN 0 ELSE end.v - 1
  IN SubSeq(history, lo + 1, IF hi > Len(history) THEN Len(history) ELSE hi)
\* history.slice(start, start + limit); a NaN bound is 0
Slice(history, start, end) ==
  LET lo == IF start.nan THEN 0 ELSE start.v
      hi == IF end.nan THEN 0 ELSE end.v
  IN SubSeq(history, lo + 1, IF hi > Len(history) THEN Len(history) ELSE hi)

JsAdd(a, b) == IF a.nan \/ b.nan THEN JsNaN ELSE JsInt(a.v + b.v)
JsMul(a, b) == IF a.nan \/ b.nan THEN JsNaN ELSE JsInt(a.v * b.v)

\* the body of the 200 response, from the history as read
HistoryResponse(history, h, pageRaw, limitRaw) ==
  LET page == PageOf(pageRaw)
      limit == LimitOf(limitRaw)
      mine == SortByTimeDesc(FilterHash(history, h))
      total == JsInt(Len(mine))
      start == JsMul(JsAdd(page, JsInt(-1)), limit)
  IN [page |-> page, limit |-> limit,
      totalPages |-> MathMax(JsInt(1), CeilDiv(total, limit)),
      total |-> total,
      results |-> Slice(mine, start, JsAdd(start, limit))]

HistoryGet(origin, pageRaw, limitRaw, rf) ==
  /\ last' = [op |-> "historyGet", origin |-> origin,
              h |-> hashIp(getClientIp(origin)),
              pageRaw |-> pageRaw, limitRaw |-> limitRaw, rf |-> rf,
              status |-> 200,
              body |-> HistoryResponse(readHistory(rf), hashIp(getClientIp(origin)),
                                       pageRaw, limitRaw)]
  /\ faulted' = (faulted \/ rf)
  /\ UNCHANGED <<file, trendingCache, bannerCache, now, pending, calls,
                 appended, removed>>

(***************************************************************************)
(* DELETE /api/history/:id                                                 *)
(***************************************************************************)
\* no check of the owner
AuthorizedAlways(entry, h) == TRUE
\* history[idx].userHash !== h answers 403
Authorized(entry, h) == entry.userHash = h

Delete(origin, id, rf, wf) ==
  LET h == hashIp(getClientIp(origin))
      history == readHistory(rf)
      idx == findIndex(history, id)
      ev == [op |-> "delete", origin |-> origin, h |-> h, id |-> id, rf |-> rf]
  IN
  /\ UNCHANGED <<trendingCache, bannerCache, now, pending, calls, appended>>
  /\ IF idx = 0 THEN
       /\ last' = ev @@ [status |-> 404, error |-> "Not found"]
       /\ faulted' = (faulted \/ rf)
       /\ UNCHANGED <<file, removed>>
     ELSE IF ~Authorized(history[idx], h) THEN
       /\ last' = ev @@ [status |-> 403, error |-> "Not authorized"]
       /\ faulted' = (faulted \/ rf)
       /\ UNCHANGED <<file, removed>>
     ELSE
       /\ file' = writeHistory(splice(history, idx), wf)
       /\ removed' = Append(removed, history[idx])
       /\ faulted' = (faulted \/ rf \/ wf)
       /\ last' = ev @@ [status |-> 200, error |-> "", wf |-> wf,
                         entry |-> history[idx]]

(***************************************************************************)
(* GET /api/trending                                                       *)
(***************************************************************************)
TopCached == 20
TopShown == 10

ObjectString == <<"[", "o", "b", "j", "e", "c", "t", " ", "O", "b", "j", "e", "c", "t", "]">>
\* String(v) of a JSON value
RECURSIVE JsString(_)
RECURSIVE JsJoin(_)
JsString(v) ==
  CASE v.t = "null" -> <<"n", "u", "l", "l">>
    [] v.t = "num" -> <<"1">>
    [] v.t = "str" -> v.s
    [] v.t = "arr" -> JsJoin(v.items)
    [] v.t = "obj" -> ObjectString
JsJoin(items) ==
  IF items = <<>> THEN <<>>
  ELSE (IF Head(items).t = "null" THEN <<>> ELSE JsString(Head(items)))
       \o (IF Len(items) > 1 THEN <<",">> ELSE <<>>) \o JsJoin(Tail(items))

NoDest == [some |-> FALSE, s |-> <<>>]
\* it.request.destination || (it.request.chat && it.response?.summary) || null,
\* then String(dest)
DestOf(it) ==
  IF "destination" \in DOMAIN it.request /\ it.request["destination"] # <<>>
  THEN [some |-> TRUE, s |-> it.request["destination"]]
  ELSE IF /\ "chat" \in DOMAIN it.request
          /\ it.response.t = "obj"
          /\ "summary" \in DOMAIN it.response.m
          /\ Truthy(it.response.m["summary"])
       THEN [some |-> TRUE, s |-> JsString(it.response.m["summary"])]
       ELSE NoDest

\* String(dest).toLowerCase().trim().split(",")[0]
Normalize(s) == SplitFirst(Trim(ToLowerCase(s)))

\* counts = {} inherits the properties of Object.prototype: counts[key] of an
\* inherited name is a function or an object, which is truthy, and + 1 makes a
\* string of it (NaN in the comparator's subtraction)
Constructor == <<"c", "o", "n", "s", "t", "r", "u", "c", "t", "o", "r">>
ProtoSetter == <<"_", "_", "p", "r", "o", "t", "o", "_", "_">>

\* counts[key] = (counts[key]||0) + 1, counts kept in insertion order
Count(counts, key) ==
  LET at == {i \in 1..Len(counts) : counts[i].k = key} IN
  IF at # {} THEN
    [i \in 1..Len(counts) |->
       IF i \in at THEN [k |-> key, n |-> JsAdd(counts[i].n, JsInt(1))]
       ELSE counts[i]]
  ELSE IF key = ProtoSetter THEN counts
  ELSE IF key = Constructor THEN Append(counts, [k |-> key, n |-> JsNaN])
  ELSE Append(counts, [k |-> key, n |-> JsInt(1)])

RECURSIVE CountAll(_, _)
CountAll(history, counts) ==
  IF history = <<>> THEN counts
  ELSE LET d == DestOf(Head(history)) IN
    CountAll(Tail(history),
             IF d.some THEN Count(counts, Normalize(d.s)) ELSE counts)

IndexOfKey(counts, key) == (CHOOSE i \in 1..Len(counts) : counts[i].k = key)

\* the comparator (a,b) => counts[b]-counts[a]; sort takes NaN as 0
Compare(counts, a, b) ==
  LET ca == counts[IndexOfKey(counts, a)].n
      cb == counts[IndexOfKey(counts, b)].n
  IN IF ca.nan \/ cb.nan THEN 0 ELSE cb.v - ca.v

\* Array.prototype.sort as V8 runs it on fewer than 64 elements: the leading
\* run is found (and reversed when strictly descending), then the other
\* elements are inserted by binary search
RECURSIVE RunLength(_, _, _, _)
RunLength(counts, a, idx, desc) ==
  IF idx > Len(a) THEN idx - 1
  ELSE LET o == Compare(counts, a[idx], a[idx - 1]) IN
    IF (desc /\ o >= 0) \/ (~desc /\ o < 0) THEN idx - 1
    ELSE RunLength(counts, a, idx + 1, desc)
Reverse(a) == [i \in 1..Len(a) |-> a[Len(a) + 1 - i]]
MakeRun(counts, a) ==
  LET desc == Compare(counts, a[2], a[1]) < 0
      n == RunLength(counts, a, 3, desc)
  IN [n |-> n,
      a |-> IF desc THEN Reverse(SubSeq(a, 1, n)) \o SubSeq(a, n + 1, Len(a)) ELSE a]
RECURSIVE BinarySearch(_, _, _, _, _)
BinarySearch(counts, a, pivot, left, right) ==
  IF left >= right THEN left
  ELSE LET mid == left + ((right - left) \div 2) IN
    IF Compare(counts, pivot, a[mid]) < 0
    THEN BinarySearch(counts, a, pivot, left, mid)
    ELSE BinarySearch(counts, a, pivot, mid + 1, right)
RECURSIVE BinaryInsertionSort(_, _, _)
BinaryInsertionSort(counts, a, start) ==
  IF start > Len(a) THEN a
  ELSE LET left == BinarySearch(counts, a, a[start], 1, start) IN
    BinaryInsertionSort(counts,
      SubSeq(a, 1, left - 1) \o <<a[start]>> \o SubSeq(a, left, start - 1)
        \o SubSeq(a, start + 1, Len(a)),
      start + 1)
SortByCount(counts, keys) ==
  IF Len(keys) < 2 THEN keys
  ELSE LET run == MakeRun(counts, keys) IN BinaryInsertionSort(counts, run.a, run.n + 1)

\* Object.keys(counts): the keys that are array indices first, ascending, then
\* the other keys in insertion order
IsArrayIndex(k) ==
  /\ k # <<>>
  /\ \A i \in 1..Len(k) : k[i] \in Digits
  /\ (Len(k) > 1 => k[1] # "0")
RECURSIVE Ascending(_)
Ascending(ks) ==
  IF ks = {} THEN <<>>
  ELSE LET m == CHOOSE x \in ks : \A y \in ks : DigitPrefix(x, 0) <= DigitPrefix(y, 0)
       IN <<m>> \o Ascending(ks \ {m})
RECURSIVE OtherKeys(_)
OtherKeys(counts) ==
  IF counts = <<>> THEN <<>>
  ELSE (IF IsArrayIndex(Head(counts).k) THEN <<>> ELSE <<Head(counts).k>>)
       \o OtherKeys(Tail(counts))
ObjectKeys(counts) ==
  Ascending({counts[i].k : i \in {j \in 1..Len(counts) : IsArrayIndex(counts[j].k)}})
    \o OtherKeys(counts)

Take(s, n) == SubSeq(s, 1, IF Len(s) < n THEN Len(s) ELSE n)

\* sorted.map(k => ({ name: k.charAt(0).toUpperCase()+k.slice(1), tag: k }))
TrendingList(history) ==
  LET counts == CountAll(history, <<>>)
      sorted == Take(SortByCount(counts, ObjectKeys(counts)), TopCached)
  IN [i \in 1..Len(sorted) |-> [name |-> Capitalize(sorted[i]), tag |-> sorted[i]]]

NoCache == [set |-> FALSE, date |-> 0, value |-> <<>>]

Trending(rf) ==
  LET today == startOfDayString IN
  /\ UNCHANGED <<file, bannerCache, now, pending, calls, appended, removed>>
  /\ IF trendingCache.set /\ trendingCache.date = today THEN
       /\ last' = [op |-> "trending", cached |-> TRUE, rf |-> FALSE,
                   status |-> 200, results |-> trendingCache.value]
       /\ UNCHANGED <<trendingCache, faulted>>
     ELSE
       LET list == TrendingList(readHistory(rf)) IN
       /\ trendingCache' = [set |-> TRUE, date |-> today, value |-> list]
       /\ faulted' = (faulted \/ rf)
       /\ last' = [op |-> "trending", cached |-> FALSE, rf |-> rf,
                   status |-> 200, results |-> Take(list, TopShown)]

(***************************************************************************)
(* GET /api/banner                                                         *)
(***************************************************************************)
\* no phrase to fall back on
NoFallback == <<>>
Fallback == <<"Explora nuevos destinos con confianza y curiosidad.">>

BannerStart ==
  LET today == startOfDayString IN
  IF bannerCache.set /\ bannerCache.date = today THEN
    /\ last' = [op |-> "bannerStart", status |-> 200, text |-> bannerCache.value]
    /\ UNCHANGED <<file, trendingCache, bannerCache, now, pending, calls,
                   appended, removed, faulted>>
  ELSE
    /\ calls < MaxCalls
    /\ calls' = calls + 1
    /\ pending' = pending \cup {[rid |-> calls + 1, kind |-> "banner", today |-> today]}
    /\ last' = [op |-> "bannerStart", status |-> NoResponse, text |-> <<>>]
    /\ UNCHANGED <<file, trendingCache, bannerCache, now, appended, removed,
                   faulted>>

\* outcome.text is the message content, a string of characters
BannerResume(r, outcome) ==
  /\ r \in pending
  /\ r.kind = "banner"
  /\ pending' = pending \ {r}
  /\ UNCHANGED <<file, trendingCache, now, calls, appended, removed, faulted>>
  /\ IF outcome.kind = "throw" THEN
       /\ last' = [op |-> "bannerResume", outcome |-> outcome, status |-> 200,
                   text |-> Fallback]
       /\ UNCHANGED bannerCache
     ELSE
       LET content == IF outcome.kind = "empty" THEN <<>> ELSE Trim(outcome.text)
           text == IF content = <<>> THEN Fallback ELSE content
       IN
       /\ bannerCache' = [set |-> TRUE, date |-> r.today, value |-> text]
       /\ last' = [op |-> "bannerResume", outcome |-> outcome, status |-> 200,
                   text |-> text]

(***************************************************************************)
(* The clock.                                                              *)
(***************************************************************************)
Tick ==
  /\ now < MaxNow
  /\ now' = now + 1
  /\ last' = [op |-> "tick"]
  /\ UNCHANGED <<file, trendingCache, bannerCache, pending, calls, appended,
                 removed, faulted>>

(***************************************************************************)
(* Inputs.                                                                 *)
(***************************************************************************)
OriginA == [fwd |-> Undefined, remote |-> <<"a">>]
OriginB == [fwd |-> <<"b", ",", " ", "a">>, remote |-> <<"a">>]
Origins == {OriginA, OriginB}
HashA == hashIp(getClientIp(OriginA))
HashB == hashIp(getClientIp(OriginB))
Rands == {"r1", "r2"}

Throw == [kind |-> "throw", text |-> <<>>]
Empty == [kind |-> "empty", text |-> <<>>]
Text(t) == [kind |-> "text", text |-> t]

Paris == <<"P", "a", "r", "i", "s">>
Tokyo == <<"T", "o", "k", "y", "o">>
NoSuchId == <<0, "r0">>

\* all sequences of length at most n over the set S
SeqsUpTo(S, n) == UNION {[1..k -> S] : k \in 0..n}

(***************************************************************************)
(* Spec: plan, chat and delete requests arrive, suspend at the model call  *)
(* and resume in any order, with no storage fault and within one tick of   *)
(* the clock.                                                              *)
(***************************************************************************)
Init ==
  /\ file = <<>>
  /\ trendingCache = NoCache
  /\ bannerCache = NoCache
  /\ now = 0
  /\ pending = {}
  /\ calls = 0
  /\ last = [op |-> "init"]
  /\ appended = <<>>
  /\ removed = <<>>
  /\ faulted = FALSE

SpecPlanBodies ==
  { [destination |-> Paris],
    [destination |-> Paris, extra |-> <<"x">>] }
SpecPlanOutcomes == { Text(<<"{", "}">>), Text(<<"c">>) }
SpecChatBodies ==
  { [messages |-> ArrayOf(<<Msg(<<"user">>, <<"<", "P">>)>>), group |-> Undefined] }
SpecChatOutcomes ==
  { Text(<<"{", "kI", "[", "]", ",", "kS", "sP", "}">>), Text(<<"{", "}">>) }
SpecIds == {NewId(r) : r \in Rands} \cup {NoSuchId}

Next ==
  \/ \E o \in Origins, b \in SpecPlanBodies : PlanStart(o, b)
  \/ \E r \in pending, out \in SpecPlanOutcomes, rand \in Rands :
       PlanResume(r, out, rand, FALSE, FALSE)
  \/ \E o \in Origins, b \in SpecChatBodies : ChatStart(o, b)
  \/ \E r \in pending, out \in SpecChatOutcomes, rand \in Rands :
       ChatResume(r, out, rand, FALSE, FALSE)
  \/ \E o \in Origins, id \in SpecIds : Delete(o, id, FALSE, FALSE)

Spec == Init /\ [][Next]_vars

(***************************************************************************)
(* SpecPlan: plan requests, with every kind of body and of model outcome,  *)
(* and with storage faults, from a fresh server and from a server that has *)
(* an entry and both caches filled.                                        *)
(***************************************************************************)
SampleEntry ==
  [id |-> <<0, "r2">>, userHash |-> HashB, timestamp |-> 0,
   request |-> [destination |-> Tokyo], response |-> JObj(EmptyMap)]
SampleTrending ==
  [set |-> TRUE, date |-> 0, value |-> <<[name |-> Tokyo, tag |-> ToLowerCase(Tokyo)]>>]
SampleBanner == [set |-> TRUE, date |-> 0, value |-> Fallback]

InitPlan ==
  /\ \/ file = <<>> /\ trendingCache = NoCache /\ bannerCache = NoCache
     \/ file = <<SampleEntry>> /\ trendingCache = SampleTrending
        /\ bannerCache = SampleBanner
  /\ now = 0
  /\ pending = {}
  /\ calls = 0
  /\ last = [op |-> "init"]
  /\ appended = file
  /\ removed = <<>>
  /\ faulted = FALSE

MaxPlanCalls == 1
AllPlanBodies ==
  { [destination |-> Paris],
    [destination |-> <<" ", "<", "P", ",", " ", "F", " ">>, days |-> NonString,
     group |-> <<"g">>],
    [destination |-> <<" ">>],
    [days |-> <<"3">>],
    [k \in {} |-> <<>>],
    [destination |-> Paris, extra |-> <<"x">>],
    [extra |-> <<"x">>] }
AllPlanOutcomes ==
  { Throw, Empty,
    Text(<<"{", "}">>),
    Text(<<"{", "kS", "sP", ",", "kI", "[", "]", "}">>),
    Text(<<"{", "kM", "[", "sQ", "]", "}">>),
    Text(<<"{", "kM", "[", "]", "}">>),
    Text(<<"{", "kM", "sQ", "}">>),
    Text(<<"c", "w", "{", "kM", "[", "sQ", "]", "}">>),
    Text(<<"c", "{", "c", "}", "{", "}">>),
    Text(<<"[", "]">>),
    Text(<<"n">>), Text(<<"1">>), Text(<<"sP">>),
    Text(<<"c">>), Text(<<"{", "}", "w">>), Text(<<"c", "{", "}", "w">>) }

NextPlan ==
  \/ \E o \in Origins, b \in AllPlanBodies :
       calls < MaxPlanCalls /\ PlanStart(o, b)
  \/ \E r \in pending, out \in AllPlanOutcomes, rand \in Rands, rf, wf \in BOOLEAN :
       PlanResume(r, out, rand, rf, wf)

SpecPlan == InitPlan /\ [][NextPlan]_vars

(***************************************************************************)
(* SpecParse: one plan request is suspended at the model call, and the     *)
(* model answers any text of at most MaxTextLen tokens.                    *)
(***************************************************************************)
ParseAlphabet == {"{", "}", "[", "]", ",", "kS", "n", "c", "w"}
ParseTexts == SeqsUpTo(ParseAlphabet, MaxTextLen) \ {<<>>}
ParseRequest ==
  [rid |-> 1, kind |-> "plan", origin |-> OriginA,
   request |-> [destination |-> Paris]]

InitParse ==
  /\ file = <<>>
  /\ trendingCache = NoCache
  /\ bannerCache = NoCache
  /\ now = 0
  /\ pending = {ParseRequest}
  /\ calls = 1
  /\ last = [op |-> "planStart", origin |-> OriginA, body |-> [destination |-> Paris],
             status |-> NoResponse, error |-> ""]
  /\ appended = <<>>
  /\ removed = <<>>
  /\ faulted = FALSE

NextParse ==
  \E r \in pending, t \in ParseTexts : PlanResume(r, Text(t), "r1", FALSE, FALSE)

SpecParse == InitParse /\ [][NextParse]_vars

(***************************************************************************)
(* SpecHistory: one GET /api/history on a history file of at most          *)
(* MaxPageHistory entries of two owners.                                   *)
(***************************************************************************)
MaxPageHistory == 3
\* entry i of a file whose owners are given by own, written at time ts[i]
PageEntry(i, owner, ts) ==
  [id |-> <<ts, IF i % 2 = 1 THEN "r1" ELSE "r2">>,
   userHash |-> IF owner = "a" THEN HashA ELSE HashB,
   timestamp |-> ts, request |-> [destination |-> Paris],
   response |-> JObj(EmptyMap)]
PageHistories ==
  UNION {
    UNION { { [i \in 1..n |-> PageEntry(i, own[i], i - 1)],
              [i \in 1..n |-> PageEntry(i, own[i], (i - 1) \div 2)] }
            : own \in [1..n -> {"a", "b"}] }
    : n \in 0..MaxPageHistory }

InitHistory ==
  /\ file \in PageHistories
  /\ trendingCache = NoCache
  /\ bannerCache = NoCache
  /\ now = MaxPageHistory
  /\ pending = {}
  /\ calls = 0
  /\ last = [op |-> "init"]
  /\ appended = file
  /\ removed = <<>>
  /\ faulted = FALSE

PageInputs == {Undefined, <<>>, <<"1">>, <<"2">>, <<"3">>, <<"0">>, <<"a">>}
LimitInputs == {Undefined, <<"1">>, <<"2">>, <<"0">>, <<"-", "3">>, <<"9", "9">>, <<"a">>}

NextHistory ==
  \E o \in Origins, p \in PageInputs, l \in LimitInputs, rf \in BOOLEAN :
    last.op = "init" /\ HistoryGet(o, p, l, rf)

SpecHistory == InitHistory /\ [][NextHistory]_vars

(***************************************************************************)
(* SpecQuery: one GET /api/history with every page and limit parameter of  *)
(* at most MaxQueryLen characters.                                         *)
(***************************************************************************)
QueryChars == {"0", "2", "7", "-", " ", "a"}
QueryInputs == {Undefined} \cup SeqsUpTo(QueryChars, MaxQueryLen)

InitQuery ==
  /\ file = <<PageEntry(1, "a", 0), PageEntry(2, "b", 0), PageEntry(3, "a", 1)>>
  /\ trendingCache = NoCache
  /\ bannerCache = NoCache
  /\ now = 2
  /\ pending = {}
  /\ calls = 0
  /\ last = [op |-> "init"]
  /\ appended = file
  /\ removed = <<>>
  /\ faulted = FALSE

NextQuery ==
  \E p \in QueryInputs, l \in QueryInputs :
    last.op = "init" /\ HistoryGet(OriginA, p, l, FALSE)

SpecQuery == InitQuery /\ [][NextQuery]_vars

(***************************************************************************)
(* SpecTrending: GET /api/trending over days, on a history file of at most *)
(* MaxTrendHistory entries.                                                *)
(***************************************************************************)
DestPool ==
  << Paris, ToLowerCase(Paris),
     <<"P", "A", "R", "I", "S", ",", " ", "F", "r", "a", "n", "c", "e">>,
     Constructor,
     <<"b">>, <<"d">>, <<"e">>, <<"g">>, <<"h">>, <<"j">>, <<"k">>, <<"l">>,
     <<"m">>, <<"o">>, <<"q">> >>
PlanEntryOf(d) ==
  [id |-> <<0, "r1">>, userHash |-> HashA, timestamp |-> 0,
   request |-> [destination |-> d], response |-> JObj(EmptyMap)]
ChatEntryOf(summary) ==
  [id |-> <<0, "r2">>, userHash |-> HashB, timestamp |-> 0,
   request |-> [chat |-> TRUE, snippet |-> <<"s">>],
   response |-> JObj(Put(Put(EmptyMap, "itinerary", JArr(<<>>)), "summary", summary))]
PoolAt(i) == DestPool[(i % Len(DestPool)) + 1]
\* the destinations come round every k entries, from place off of the pool
CycleHistory(n, k, off) == [i \in 1..n |-> PlanEntryOf(PoolAt(((i - 1) % k) + off))]
\* the j-th destination comes j times: 1, 2, 2, 3, 3, 3, ...
RECURSIVE TriangleIndex(_, _)
TriangleIndex(i, j) == IF i <= j THEN j ELSE TriangleIndex(i - j, j + 1)
TriangleHistory(n, off) == [i \in 1..n |-> PlanEntryOf(PoolAt(TriangleIndex(i, 1) - 1 + off))]
TrendHistories ==
  {CycleHistory(n, k, off) : n \in 0..MaxTrendHistory, k \in {1, 3, MaxTrendHistory},
                             off \in {0, 3, 4}}
  \cup {TriangleHistory(n, off) : n \in 0..MaxTrendHistory, off \in {0, 3, 4}}
  \cup { <<ChatEntryOf(JStr(<<"P">>)), PlanEntryOf(<<"p">>), ChatEntryOf(JNull)>>,
         <<ChatEntryOf(JNum), ChatEntryOf(JArr(<<JStr(<<"P">>), JNum>>)),
           PlanEntryOf(<<"b">>), PlanEntryOf(<<"b">>)>> }

InitTrending ==
  /\ file \in TrendHistories
  /\ trendingCache = NoCache
  /\ bannerCache = NoCache
  /\ now = 0
  /\ pending = {}
  /\ calls = 0
  /\ last = [op |-> "init"]
  /\ appended = file
  /\ removed = <<>>
  /\ faulted = FALSE

NextTrending ==
  \/ \E rf \in BOOLEAN : Trending(rf)
  \/ Tick

SpecTrending == InitTrending /\ [][NextTrending]_vars

(***************************************************************************)
(* Properties.                                                             *)
(***************************************************************************)
Range(f) == {f[i] : i \in DOMAIN f}
Occurrences(seq, e) == Cardinality({i \in 1..Len(seq) : seq[i] = e})

\* C1: once every request has completed, and with no storage fault, the log
\* holds each entry a successful plan or chat request appended, as many times
\* as it was appended, less the entries successful deletes removed, whatever
\* the order in which the suspended requests resumed.
C1_NoLostUpdate ==
  (pending = {} /\ ~faulted) =>
    \A e \in Range(file) \cup Range(appended) :
      Occurrences(file, e) = Occurrences(appended, e) - Occurrences(removed, e)

\* Request 1 resumed last, after request 2, which started later, had appended
\* its entry and a delete had removed an entry.
C1_Witness ==
  /\ pending = {}
  /\ last.op \in {"planResume", "chatResume"}
  /\ last.rid = 1
  /\ last.status = 200
  /\ Len(appended) = 2
  /\ Len(removed) = 1
  /\ Len(file) = 1

\* the first entry of the log with this id, 0 when there is none
TargetOf(log, id) ==
  IF \E i \in 1..Len(log) : log[i].id = id
  THEN CHOOSE i \in 1..Len(log) :
         log[i].id = id /\ \A j \in 1..(i - 1) : log[j].id # id
  ELSE 0

\* C4: a delete whose target (the first entry with the id, in a log that was
\* read without a fault) has another userHash than the requester's answers
\* 403 and leaves the log as it was.
C4_ForbiddenDelete ==
  [][ ( /\ last'.op = "delete"
        /\ ~last'.rf
        /\ TargetOf(file, last'.id) # 0
        /\ file[TargetOf(file, last'.id)].userHash # hashIp(getClientIp(last'.origin)) )
      => (last'.status = 403 /\ file' = file) ]_vars

C4_Witness ==
  /\ last.op = "delete"
  /\ last.status = 403
  /\ TargetOf(file, last.id) # 0
  /\ file[TargetOf(file, last.id)].userHash # last.h
  /\ Len(file) = 2

\* C6: a plan request with a key outside the five allowed ones answers 400
\* "Invalid fields" at once: no model call is made or left suspended, and the
\* log and both caches are as before.
C6_InvalidFields ==
  [][ ( /\ last'.op = "planStart"
        /\ ~(DOMAIN last'.body \subseteq
               {"destination", "days", "budget", "interests", "group"}) )
      => ( /\ last'.status = 400
           /\ last'.error = "Invalid fields"
           /\ calls' = calls
           /\ pending' = pending
           /\ file' = file
           /\ trendingCache' = trendingCache
           /\ bannerCache' = bannerCache ) ]_vars

C6_Witness ==
  /\ last.op = "planStart"
  /\ "extra" \in DOMAIN last.body
  /\ "destination" \in DOMAIN last.body
  /\ last.status = 400
  /\ file # <<>>
  /\ trendingCache.set
  /\ bannerCache.set

\* C8: a plan request changes the log only when it answers 200: a step that
\* answers 400, 502 or 500 (with or without the raw text), or that suspends,
\* leaves it as it was, and a step that answers 200 with no storage fault
\* appends one entry, of the caller's hash, of the request's normalized
\* input, and of the payload it answers.
C8_PlanAppends ==
  [][ (last'.op \in {"planStart", "planResume"}) =>
      IF last'.status = 200
      THEN (~last'.rf /\ ~last'.wf) =>
             /\ Len(file') = Len(file) + 1
             /\ SubSeq(file', 1, Len(file)) = file
             /\ file'[Len(file')].userHash = hashIp(getClientIp(last'.origin))
             /\ file'[Len(file')].request = last'.request
             /\ file'[Len(file')].response = last'.body
      ELSE file' = file ]_vars

\* a request forwarded for another address than its socket's answered 200
C8_Witness ==
  /\ last.op = "planResume"
  /\ last.status = 200
  /\ ~last.rf /\ ~last.wf
  /\ last.origin = OriginB
  /\ Len(file) = 2
  /\ file[2] = last.entry
  /\ last.body.t = "obj"
  /\ "images" \in DOMAIN last.body.m

\* a non-empty list of images in a response payload
HasImageList(v) ==
  /\ v.t = "obj"
  /\ "images" \in DOMAIN v.m
  /\ v.m["images"].t = "arr"
  /\ v.m["images"].items # <<>>

\* C5: every 200 response of a plan request (its destination is not empty)
\* holds a non-empty images list, whatever value the text parsed to; when the
\* parsed value holds none, the list is the one default URL of the encoded
\* destination.
C5_ImagesAlways ==
  (last.op = "planResume" /\ last.status = 200) =>
    /\ HasImageList(last.body)
    /\ ~HasImageList(last.parsed) =>
         last.body.m["images"] =
           JArr(<<JStr(UnsplashPrefix \o encodeURIComponent(last.request["destination"]))>>)

\* C7: the plan handler's parse of a text.  A text that is JSON gives its
\* value; a text that is not, and that ends with a JSON object after some
\* leading text (which may hold braces), gives that object; any other text
\* answers 500 with the text as raw.
TrailingObjects(text) ==
  {i \in 2..Len(text) :
     /\ text[i] = "{"
     /\ text[Len(text)] = "}"
     /\ JSONparse(SubSeq(text, i, Len(text))).ok}
C7_ParseContract ==
  (last.op = "planResume" /\ last.outcome.kind = "text") =>
    LET text == last.outcome.text
        whole == JSONparse(text)
    IN
    /\ whole.ok => ("parsed" \in DOMAIN last /\ last.parsed = whole.v)
    /\ (~whole.ok /\ TrailingObjects(text) # {}) =>
         /\ "parsed" \in DOMAIN last
         /\ \E i \in TrailingObjects(text) :
              last.parsed = JSONparse(SubSeq(text, i, Len(text))).v
    /\ (~whole.ok /\ TrailingObjects(text) = {}) =>
         /\ last.status = 500
         /\ "raw" \in DOMAIN last
         /\ last.raw = text

\* the decimal digits of n >= 0
DigitChar(d) == CHOOSE c \in Digits : DigitVal(c) = d
RECURSIVE DigitsOf(_)
DigitsOf(n) ==
  IF n < 10 THEN <<DigitChar(n)>> ELSE DigitsOf(n \div 10) \o <<DigitChar(n % 10)>>

\* the results of pages 1..n put end to end, as the owner h would get them
RECURSIVE PagesConcat(_, _, _)
PagesConcat(h, limitRaw, n) ==
  IF n = 0 THEN <<>>
  ELSE PagesConcat(h, limitRaw, n - 1)
       \o HistoryResponse(file, h, DigitsOf(n), limitRaw).results

\* C2: for the N entries of the log whose userHash is the caller's and a limit
\* L, the response (of a read without fault) has total = N and totalPages =
\* the least k >= 1 with k * L >= N, and the pages 1..totalPages put end to
\* end hold each of these N entries once, no other entry, newest first.
C2_Pagination ==
  (last.op = "historyGet" /\ ~last.rf /\ ~last.body.limit.nan) =>
    LET h == hashIp(getClientIp(last.origin))
        L == last.body.limit.v
        N == Cardinality({i \in 1..Len(file) : file[i].userHash = h})
        k == last.body.totalPages.v
        all == PagesConcat(h, last.limitRaw, k)
    IN
    /\ last.body.total = JsInt(N)
    /\ ~last.body.totalPages.nan
    /\ k >= 1 /\ k * L >= N /\ (k > 1 => (k - 1) * L < N)
    /\ Len(all) = N
    /\ \A i \in 1..Len(all) : all[i].userHash = h
    /\ \A e \in Range(file) :
         e.userHash = h => Occurrences(all, e) = Occurrences(file, e)
    /\ \A i \in 1..(Len(all) - 1) : all[i].timestamp >= all[i + 1].timestamp

\* the second of the two pages of a caller who owns two of the three entries
C2_Witness ==
  /\ last.op = "historyGet"
  /\ ~last.rf
  /\ last.body.limit = JsInt(1)
  /\ last.body.page = JsInt(2)
  /\ last.body.total = JsInt(2)
  /\ last.body.totalPages = JsInt(2)
  /\ Len(last.body.results) = 1
  /\ Len(file) = 3

\* C3: whatever the page and limit parameters are, the limit used is an
\* integer of 1..50 and the page answered is an integer >= 1.
C3_Clamped ==
  (last.op = "historyGet") =>
    /\ ~last.body.limit.nan
    /\ last.body.limit.v \in 1..50
    /\ ~last.body.page.nan
    /\ last.body.page.v >= 1

\* C9: a trending response, computed or served from the cache, holds at most
\* 10 results.
C9_AtMostTen ==
  (last.op = "trending") => Len(last.results) <= 10

\* the destination tokens of the log and the number of entries of each
TagsOf(log) ==
  {Normalize(DestOf(log[i]).s) : i \in {j \in 1..Len(log) : DestOf(log[j]).some}}
EntriesOf(log, tag) ==
  Cardinality({i \in 1..Len(log) :
                 DestOf(log[i]).some /\ Normalize(DestOf(log[i]).s) = tag})

\* C10: the trending count of a log read without fault: each destination
\* token has one count, which is the number of entries that normalize to it;
\* a tag comes once in the results, and the results come by descending count.
C10_Aggregation ==
  (last.op = "trending" /\ ~last.cached /\ ~last.rf) =>
    LET counts == CountAll(file, <<>>)
        res == last.results
    IN
    /\ \A i \in 1..Len(counts) :
         /\ ~counts[i].n.nan
         /\ counts[i].n.v = EntriesOf(file, counts[i].k)
         /\ \A j \in 1..Len(counts) : counts[j].k = counts[i].k => j = i
    /\ {counts[i].k : i \in 1..Len(counts)} = TagsOf(file)
    /\ \A i, j \in 1..Len(res) : res[i].tag = res[j].tag => i = j
    /\ \A i \in 1..Len(res) : res[i].tag \in TagsOf(file)
    /\ \A i \in 1..(Len(res) - 1) :
         EntriesOf(file, res[i].tag) >= EntriesOf(file, res[i + 1].tag)

\* C11: of two trending calls that follow one another within the same day,
\* the second is served from the cache, without a read of the history file,
\* and returns the result list the first one returned.
C11_SameDayIdentical ==
  [][ (last.op = "trending" /\ last'.op = "trending" /\ now' = now)
      => (last'.cached /\ last'.results = last.results) ]_vars

(***************************************************************************)
(* SpecBanner: banner requests arrive, suspend at the model call and       *)
(* resume in any order with any outcome, while the clock runs over the day *)
(* boundary.                                                               *)
(***************************************************************************)
BannerOutcomes ==
  { Throw, Empty, Text(<<"x">>), Text(<<"y">>), Text(<<" ">>),
    Text(<<" ", "x", " ">>) }

NextBanner ==
  \/ BannerStart
  \/ \E r \in pending, out \in BannerOutcomes : BannerResume(r, out)
  \/ Tick

SpecBanner == Init /\ [][NextBanner]_vars

BannerOps == {"bannerStart", "bannerResume"}

\* C12: of two banner calls that answer one after the other within the same
\* day, whatever the order in which suspended requests resume and whatever
\* the model answered, the later one invokes the model no more and answers
\* the text the earlier one answered.
C12_BannerOncePerDay ==
  [][ ( /\ last.op \in BannerOps /\ last.status = 200
        /\ last'.op \in BannerOps
        /\ now' = now )
      => ( /\ calls' = calls
           /\ (last'.status = 200 => last'.text = last.text) ) ]_vars

\* C13: a banner response is a success with a text that is not empty, and
\* the text is the fallback phrase when the model call failed or gave no
\* text or only white space.
C13_BannerNeverFails ==
  (last.op \in BannerOps /\ last.status # NoResponse) =>
    /\ last.status = 200
    /\ last.text # <<>>
    /\ (last.op = "bannerResume" /\
          (last.outcome.kind \in {"throw", "empty"}
             \/ \A i \in 1..Len(last.outcome.text) : last.outcome.text[i] = " "))
       => last.text = Fallback

\* a model text of white space only was answered with the fallback phrase
C13_Witness ==
  /\ last.op = "bannerResume"
  /\ last.outcome = Text(<<" ">>)
  /\ last.status = 200
  /\ last.text = Fallback
  /\ bannerCache.set

(***************************************************************************)
(* SpecChat: chat requests, with every kind of messages value and of model *)
(* outcome, and with storage faults, from a fresh server and from a server *)
(* that has an entry.                                                      *)
(***************************************************************************)
MaxChatCalls == 1
User == <<"user">>
Assistant == <<"assistant">>
AllChatBodies ==
  { [messages |-> NotArray, group |-> Undefined],
    [messages |-> ArrayOf(<<>>), group |-> Undefined],
    [messages |-> ArrayOf(<<Msg(User, <<"h">>)>>), group |-> <<"g">>],
    [messages |-> ArrayOf(<<Msg(User, <<"h">>), Msg(Assistant, <<"k">>)>>),
     group |-> Undefined],
    [messages |-> ArrayOf(<<Msg(Assistant, <<"k">>), Msg(User, <<"<", "h">>)>>),
     group |-> Undefined],
    [messages |-> ArrayOf(<<Msg(User, NonString)>>), group |-> Undefined],
    [messages |-> ArrayOf(<<Msg(User, <<"h">>), NullElem>>), group |-> Undefined],
    [messages |-> ArrayOf(<<PrimElem>>), group |-> Undefined] }
AllChatOutcomes ==
  { Throw, Empty,
    Text(<<"{", "kI", "[", "]", ",", "kS", "sP", "}">>),
    Text(<<"{", "kI", "sQ", "}">>),
    Text(<<"{", "kI", "n", "}">>),
    Text(<<"{", "kS", "sP", "}">>),
    Text(<<"c", "w", "{", "kI", "[", "]", "}">>),
    Text(<<"c">>), Text(<<"n">>), Text(<<"[", "]">>), Text(<<"sP">>) }

NextChat ==
  \/ \E o \in Origins, b \in AllChatBodies :
       calls < MaxChatCalls /\ ChatStart(o, b)
  \/ \E r \in pending, out \in AllChatOutcomes, rand \in Rands, rf, wf \in BOOLEAN :
       ChatResume(r, out, rand, rf, wf)

SpecChat == InitPlan /\ [][NextChat]_vars

\* the entries of which the log after holds more than the log before
Gained(before, after) ==
  {e \in Range(after) : Occurrences(after, e) > Occurrences(before, e)}

\* C14: a chat request whose model call returned a text answers 200 with
\* that text as it is; a text that does not parse gives parsed = null and
\* leaves the log as it was; and the log gains an entry only when the parsed
\* payload has an itinerary field, and then one entry, the request's.
C14_ChatRawText ==
  [][ (last'.op = "chatResume" /\ last'.outcome.kind = "text") =>
      /\ last'.status = 200
      /\ last'.text = last'.outcome.text
      /\ ~JSONparse(last'.outcome.text).ok => (last'.parsed = JNull /\ file' = file)
      /\ Gained(file, file') # {} =>
           /\ last'.parsed.t = "obj"
           /\ "itinerary" \in DOMAIN last'.parsed.m
           /\ Gained(file, file') = {last'.entry}
           /\ Occurrences(file', last'.entry) = Occurrences(file, last'.entry) + 1 ]_vars

\* a payload with an itinerary was appended to a log that had an entry
C14_Witness ==
  /\ last.op = "chatResume"
  /\ last.status = 200
  /\ last.saved
  /\ ~last.rf /\ ~last.wf
  /\ last.text = <<"{", "kI", "[", "]", ",", "kS", "sP", "}">>
  /\ Len(file) = 2
  /\ file[1] = SampleEntry
  /\ file[2] = last.entry

\* a messages value that is an array of role/content objects
WellFormed(messages) ==
  /\ messages.arr
  /\ \A i \in 1..Len(messages.items) : messages.items[i].k = "obj"

\* C15: a chat request whose messages value is not an array, or is an array
\* with an element that is null or not an object, answers 400 and makes no
\* model call.
C15_InvalidInput ==
  [][ (last'.op = "chatStart" /\ ~WellFormed(last'.body.messages))
      => (last'.status = 400 /\ calls' = calls /\ pending' = pending) ]_vars

\* the content of the last message of role user, "" when there is none
RECURSIVE LastUserContent(_)
LastUserContent(msgs) ==
  IF msgs = <<>> THEN <<>>
  ELSE IF msgs[Len(msgs)].role = User THEN msgs[Len(msgs)].content
  ELSE LastUserContent(SubSeq(msgs, 1, Len(msgs) - 1))

\* C19: the entry a chat request appends has a request record of the chat
\* marker, the group if there is one, and the snippet, and nothing else; the
\* snippet is the content of the most recent message of role user.
C19_SnippetLastUser ==
  (last.op = "chatResume" /\ last.status = 200 /\ last.saved) =>
    LET req == last.entry.request IN
    /\ DOMAIN req \subseteq {"chat", "group", "snippet"}
    /\ req.chat = TRUE
    /\ (last.group # Undefined) => req.group = last.group
    /\ req.snippet = LastUserContent(last.sanitized)

\* C20: the payload the chat flow extracts from a model text is the payload
\* the plan flow parses from that text, and the entry is appended or not as
\* that payload has an itinerary or not.
C20_SameParser ==
  (last.op = "chatResume" /\ last.status = 200 /\ PlanParse(last.text).ok) =>
    /\ last.parsed = PlanParse(last.text).v
    /\ last.saved = HasItinerary(PlanParse(last.text).v)

\* C16: no two entries of the log have the same id, and no two entries ever
\* appended have, so that the id of a deleted entry is not given again.
C16_UniqueIds ==
  /\ \A i, j \in 1..Len(file) : file[i].id = file[j].id => i = j
  /\ \A i, j \in 1..Len(appended) : appended[i].id = appended[j].id => i = j

(***************************************************************************)
(* SpecStore: plan, chat and delete requests on a log of two owners, where *)
(* every read and every write of the history file may fail.                *)
(***************************************************************************)
\* a delete whose write fails answers 200 again and again
MaxDeletes == 2
InitStore ==
  /\ file = <<SampleEntry, PlanEntryOf(Paris)>>
  /\ trendingCache = NoCache
  /\ bannerCache = NoCache
  /\ now = 0
  /\ pending = {}
  /\ calls = 0
  /\ last = [op |-> "init"]
  /\ appended = file
  /\ removed = <<>>
  /\ faulted = FALSE

NextStore ==
  \/ \E o \in Origins : PlanStart(o, [destination |-> Paris])
  \/ \E r \in pending, rand \in Rands, rf, wf \in BOOLEAN :
       PlanResume(r, Text(<<"{", "}">>), rand, rf, wf)
  \/ \E o \in Origins, b \in SpecChatBodies : ChatStart(o, b)
  \/ \E r \in pending, out \in SpecChatOutcomes, rand \in Rands, rf, wf \in BOOLEAN :
       ChatResume(r, out, rand, rf, wf)
  \/ \E o \in Origins, id \in SpecIds, rf, wf \in BOOLEAN :
       Len(removed) < MaxDeletes /\ Delete(o, id, rf, wf)

SpecStore == InitStore /\ [][NextStore]_vars

\* the log without its entry at place i
Without(log, i) == SubSeq(log, 1, i - 1) \o SubSeq(log, i + 1, Len(log))

\* C17: a step leaves every entry of the log in it, as it was and in its
\* order, but for a successful delete, which takes out one entry of the
\* requester's own, and a plan or chat append, which adds one entry at the
\* end; this also when a read of the history file fails.
C17_EntriesStay ==
  [][ \/ file' = file
      \/ /\ last'.op \in {"planResume", "chatResume"}
         /\ last'.status = 200
         /\ file' = Append(file, last'.entry)
      \/ /\ last'.op = "delete"
         /\ last'.status = 200
         /\ \E i \in 1..Len(file) :
              /\ file[i].userHash = hashIp(getClientIp(last'.origin))
              /\ file' = Without(file, i) ]_vars

\* C18: a delete that answers 200 has taken the entry of that id out of the
\* history file, that entry alone, also when the write of the file can fail.
C18_DeleteRemoves ==
  [][ (last'.op = "delete" /\ last'.status = 200) =>
        /\ TargetOf(file, last'.id) # 0
        /\ file' = Without(file, TargetOf(file, last'.id)) ]_vars

====
